---- MODULE Spec2Model ----
(***************************************************************************)
(* Model of parent_and_subagents/agent.py: the greeter (root_agent) hands  *)
(* the request to builder_team, a SequentialAgent that runs dev_loop (a    *)
(* LoopAgent over [code_writer, code_critic] with max_iterations) and then *)
(* final_presenter.  The three tools append_to_state, get_latest_state and *)
(* handoff_to are modelled as operators on the session state, a Python     *)
(* dict from field name to list of strings.                                *)
(*                                                                         *)
(* The text a language model generates is opaque: a draft is any element   *)
(* of Drafts, a critique any element of Feedbacks.  What an agent does     *)
(* with its tools is taken from its instruction string and its tools=      *)
(* list; the order in which agents run is taken from the LoopAgent and     *)
(* SequentialAgent constructions.                                          *)
(***************************************************************************)
EXTENDS Integers, Sequences, FiniteSets, TLC

\* ---------------------------------------------------------------- bounds
MaxCap == 5          \* largest max_iterations explored in Spec (covers the 5 of the source)
PeerCap == 2         \* largest max_iterations explored in SpecAnyPeer
MaxLen == 2          \* longest list built per field in SpecTools

\* ------------------------------------------------------------- constants
DEFAULT_MAX_ITERATIONS == 5

\* Field names the source uses with append_to_state / state.get.
FieldNames == {"PROMPT", "CODE_DRAFT", "CRITICAL_FEEDBACK"}

Prompts == {"p1"}
Drafts == {"d1", "d2"}
Feedbacks == {"f1", "f2"}

\* The responses given to append_to_state when it is called directly.
ToolValues == {"d1", "f1"}

\* Names a handoff_to call can carry: the two loop peers and one agent
\* outside the loop.
AgentNames == {"code_writer", "code_critic", "greeter"}

\* The value used where Python raises an exception.
Raised == "<raised>"

VARIABLES
    state,           \* tool_context.state: dict field -> list of strings
    pc,              \* which agent of the tree holds control
    max_iterations,  \* dev_loop.max_iterations
    times_looped,    \* completed passes of dev_loop over its sub_agents
    sub_idx,         \* index in sub_agents of the sub-agent to run next
    rounds,          \* the participant rounds executed so far, in order
    final,           \* what final_presenter emitted, NoResult before
    tool_result      \* SpecTools: the last direct tool call and its return

vars == <<state, pc, max_iterations, times_looped, sub_idx, rounds, final, tool_result>>

NoResult == [kind |-> "none"]
NoCall == [tool |-> "none"]
EmptyState == [f \in {} |-> <<>>]

\* ----------------------------------------------------------------- tools

\* dict.get(field, default)
Get(s, field, default) == IF field \in DOMAIN s THEN s[field] ELSE default

\* Python's truth value of a list.
HasFirst(xs) == Len(xs) > 0

\* Variant: xs[-1] without the emptiness test, which raises on an empty list.
LastUnguarded(xs) == IF Len(xs) > 0 THEN xs[Len(xs)] ELSE Raised

\* Python's  xs[-1] if xs else ""
LastOrEmpty(xs) == IF Len(xs) > 0 THEN xs[Len(xs)] ELSE ""

\* Variant: the state is replaced by one holding the appended field alone.
append_drops_others(s, field, response) ==
    [ret |-> [status |-> "success"],
     state |-> (field :> (Get(s, field, <<>>) \o <<response>>))]

\* Variant: the field is overwritten with the new response alone.
append_overwrite(s, field, response) ==
    [ret |-> [status |-> "success"],
     state |-> (field :> <<response>>) @@ s]

\* append_to_state(tool_context, field, response)
append_to_state(s, field, response) ==
    [ret |-> [status |-> "success"],
     state |-> (field :> (Get(s, field, <<>>) \o <<response>>)) @@ s]

\* Variant: xs[0] instead of xs[-1], the oldest entry instead of the latest.
get_first_state(s) ==
    [ret |-> [latest_code_draft |->
                  (IF HasFirst(Get(s, "CODE_DRAFT", <<>>))
                   THEN Get(s, "CODE_DRAFT", <<>>)[1] ELSE ""),
              latest_feedback |->
                  (IF HasFirst(Get(s, "CRITICAL_FEEDBACK", <<>>))
                   THEN Get(s, "CRITICAL_FEEDBACK", <<>>)[1] ELSE "")],
     state |-> s]

\* get_latest_state(tool_context)
get_latest_state(s) ==
    [ret |-> [latest_code_draft |-> LastOrEmpty(Get(s, "CODE_DRAFT", <<>>)),
              latest_feedback |-> LastOrEmpty(Get(s, "CRITICAL_FEEDBACK", <<>>))],
     state |-> s]

\* handoff_to(tool_context, agent_name): returns the transfer record for
\* whatever name it is given; it neither checks the name nor touches the
\* state or the tool context's actions.
handoff_to(s, agent_name) ==
    [ret |-> [transfer_to_agent |-> [agent_name |-> agent_name]],
     state |-> s]

\* exit_loop(tool_context), imported from the framework: sets
\* tool_context.actions.escalate, which makes the enclosing LoopAgent return.
exit_loop(s) ==
    [ret |-> [status |-> "exit"], escalate |-> TRUE, state |-> s]

\* ------------------------------------------------------- agent set-up

\* tools= of code_critic and of code_writer.
CriticTools == {"get_latest_state", "append_to_state", "handoff_to"}
WriterTools == {"get_latest_state", "append_to_state", "handoff_to"}

\* Variant: the sub-agents listed in the other order.
SubAgentsSwapped == <<"code_critic", "code_writer">>

\* dev_loop.sub_agents, in order.
sub_agents == <<"code_writer", "code_critic">>

\* builder_team.sub_agents, in order: what runs when dev_loop returns.
AfterLoop == "final_presenter"

\* Variants of the loop condition: one pass too many, one pass too few.
LoopContinuesInclusive(looped, cap) == looped <= cap
LoopStopsEarly(looped, cap) == looped + 1 < cap

\* The LoopAgent's loop condition: another pass over sub_agents is started
\* while fewer than max_iterations passes have completed.
LoopContinues(looped, cap) == looped < cap

\* Variants: an agent that appends to the field of the other role.
WriterFieldWrong == "CRITICAL_FEEDBACK"
CriticFieldWrong == "CODE_DRAFT"

\* The field each instruction names in its append_to_state call.
WriterField == "CODE_DRAFT"
CriticField == "CRITICAL_FEEDBACK"

\* A directive as the round records it.
Handoff(agent_name) == [kind |-> "handoff", agent_name |-> agent_name]
Terminate == [kind |-> "terminate", agent_name |-> ""]

\* The peer each instruction names in its handoff_to call.
InstructedPeer(agent) ==
    IF agent = "code_writer" THEN "code_critic" ELSE "code_writer"

\* ------------------------------------------------------------ the rounds

\* Variant: a writer that ends the loop itself instead of handing off.
WriterRoundExits(draft, agent_name) ==
    LET r == get_latest_state(state)
        a == append_to_state(r.state, "CODE_DRAFT", draft)
    IN [agent |-> "code_writer",
        read |-> r.ret,
        verdict |-> "none",
        appends |-> <<[field |-> "CODE_DRAFT", value |-> draft]>>,
        directives |-> <<[kind |-> "terminate", agent_name |-> ""]>>,
        escalate |-> TRUE,
        store |-> a.state]

\* Variant: a writer that hands off without having appended its draft.
WriterRoundNoAppend(draft, agent_name) ==
    LET r == get_latest_state(state)
        h == handoff_to(r.state, agent_name)
    IN [agent |-> "code_writer",
        read |-> r.ret,
        verdict |-> "none",
        appends |-> <<>>,
        directives |-> <<Handoff(h.ret.transfer_to_agent.agent_name)>>,
        escalate |-> FALSE,
        store |-> h.state]

\* One turn of code_writer, following its instruction: read the latest
\* draft and feedback, append the new complete draft to CODE_DRAFT, then
\* call handoff_to.  It has no tool that ends the loop.
WriterRound(draft, agent_name) ==
    LET r == get_latest_state(state)
        a == append_to_state(r.state, WriterField, draft)
        h == handoff_to(a.state, agent_name)
    IN [agent |-> "code_writer",
        read |-> r.ret,
        verdict |-> "none",
        appends |-> <<[field |-> WriterField, value |-> draft]>>,
        directives |-> <<Handoff(h.ret.transfer_to_agent.agent_name)>>,
        escalate |-> FALSE,
        store |-> h.state]

\* Variant: a critic whose instruction lacks the rule for being called
\* before any draft exists.
CriticRoundNoFirstCase(verdict, feedback, agent_name) ==
    LET r == get_latest_state(state)
    IN IF verdict = "improve"
       THEN LET a == append_to_state(r.state, CriticField, feedback)
                h == handoff_to(a.state, agent_name)
            IN [agent |-> "code_critic", read |-> r.ret, verdict |-> verdict,
                appends |-> <<[field |-> CriticField, value |-> feedback]>>,
                directives |-> <<Handoff(h.ret.transfer_to_agent.agent_name)>>,
                escalate |-> FALSE, store |-> h.state]
       ELSE [agent |-> "code_critic", read |-> r.ret, verdict |-> verdict,
             appends |-> <<>>, directives |-> <<>>,
             escalate |-> FALSE, store |-> r.state]

\* One turn of code_critic, following its instruction.  Called before any
\* draft exists it appends the user prompt as CRITICAL_FEEDBACK; the rule
\* for that case names only the append, so whether a handoff_to call
\* follows is left to the rule for needed improvement.  If improvement is
\* needed it appends CRITICAL_FEEDBACK and calls handoff_to.  Otherwise it
\* is to exit the loop, which it can do only through exit_loop, and only if
\* that tool is in its tools= list.
CriticRound(verdict, feedback, agent_name) ==
    LET r == get_latest_state(state)
    IN IF r.ret.latest_code_draft = ""
       THEN LET fb == LastOrEmpty(Get(r.state, "PROMPT", <<>>))
                a == append_to_state(r.state, CriticField, fb)
                h == handoff_to(a.state, agent_name)
            IN [agent |-> "code_critic", read |-> r.ret, verdict |-> "called_first",
                appends |-> <<[field |-> CriticField, value |-> fb]>>,
                directives |-> IF verdict = "improve"
                               THEN <<Handoff(h.ret.transfer_to_agent.agent_name)>>
                               ELSE <<>>,
                escalate |-> FALSE, store |-> h.state]
       ELSE IF verdict = "improve"
       THEN LET a == append_to_state(r.state, CriticField, feedback)
                h == handoff_to(a.state, agent_name)
            IN [agent |-> "code_critic", read |-> r.ret, verdict |-> verdict,
                appends |-> <<[field |-> CriticField, value |-> feedback]>>,
                directives |-> <<Handoff(h.ret.transfer_to_agent.agent_name)>>,
                escalate |-> FALSE, store |-> h.state]
       ELSE IF "exit_loop" \in CriticTools
       THEN LET e == exit_loop(r.state)
            IN [agent |-> "code_critic", read |-> r.ret, verdict |-> verdict,
                appends |-> <<>>, directives |-> <<Terminate>>,
                escalate |-> e.escalate, store |-> e.state]
       ELSE [agent |-> "code_critic", read |-> r.ret, verdict |-> verdict,
             appends |-> <<>>, directives |-> <<>>,
             escalate |-> FALSE, store |-> r.state]

\* ------------------------------------------------------- the controller

\* The state of the loop controller, in the words of the state machine.
LoopState ==
    IF pc = "dev_loop"
    THEN IF sub_agents[sub_idx] = "code_writer"
         THEN "AWAITING_PRODUCER" ELSE "AWAITING_REVIEWER"
    ELSE IF pc \in {"final_presenter", "done"} THEN "TERMINATED"
    ELSE "NOT_STARTED"

\* dev_loop after the sub-agent at sub_idx has finished its turn with
\* result rr: return at once if the turn escalated; otherwise go on to the
\* next sub-agent, counting a pass when the last one has run and returning
\* when the loop condition no longer holds.
LoopAdvance(rr) ==
    /\ rounds' = Append(rounds, rr)
    /\ state' = rr.store
    /\ IF rr.escalate
       THEN /\ pc' = AfterLoop
            /\ UNCHANGED <<times_looped, sub_idx>>
       ELSE IF sub_idx < Len(sub_agents)
       THEN /\ sub_idx' = sub_idx + 1
            /\ UNCHANGED <<times_looped, pc>>
       ELSE /\ sub_idx' = 1
            /\ times_looped' = times_looped + 1
            /\ pc' = IF LoopContinues(times_looped + 1, max_iterations)
                     THEN "dev_loop" ELSE AfterLoop
    /\ UNCHANGED <<max_iterations, final, tool_result>>

\* dev_loop runs code_writer when it is the sub-agent next in order.
WriterTurn(agent_name) ==
    /\ pc = "dev_loop"
    /\ sub_agents[sub_idx] = "code_writer"
    /\ \E d \in Drafts : LoopAdvance(WriterRound(d, agent_name))

\* dev_loop runs code_critic when it is the sub-agent next in order.
CriticTurn(agent_name) ==
    /\ pc = "dev_loop"
    /\ sub_agents[sub_idx] = "code_critic"
    /\ \E v \in {"improve", "approve"}, f \in Feedbacks :
           LoopAdvance(CriticRound(v, f, agent_name))

\* The greeter (root_agent) records the request with append_to_state and
\* transfers to builder_team, whose first sub-agent is dev_loop.
Greeter ==
    /\ pc = "greeter"
    /\ \E p \in Prompts : state' = append_to_state(state, "PROMPT", p).state
    /\ pc' = "dev_loop"
    /\ UNCHANGED <<max_iterations, times_looped, sub_idx, rounds, final, tool_result>>

\* ---------------------------------------------------- final_presenter

\* The state key the instruction of final_presenter names in its CODE_DRAFT
\* section.
PresenterKey == "latest_code_draft"

\* Variant: the placeholder { key } without ?, which raises on a missing key.
InjectRequired(s, key) == IF key \in DOMAIN s THEN s[key] ELSE Raised

\* An instruction placeholder { key? }: the value of the state key, or the
\* empty string when the key is not in the state (the ? makes it optional).
InjectOptional(s, key) == IF key \in DOMAIN s THEN s[key] ELSE ""

\* The output format of the instruction: the code inside a python fence
\* (three backquotes and the word python, the code, three backquotes).
Fence(code) == <<"fence python", code, "fence">>

\* final_presenter has no tools; the draft it is given is what its
\* instruction template injects.  It emits that as fenced text.
final_presenter(s) ==
    [kind |-> "text", text |-> Fence(InjectOptional(s, PresenterKey))]

\* Variant: final_presenter given its turn whether or not dev_loop has
\* returned.
PresenterEarly ==
    /\ pc \in {"dev_loop", "final_presenter"}
    /\ final' = final_presenter(state)
    /\ pc' = "done"
    /\ UNCHANGED <<state, max_iterations, times_looped, sub_idx, rounds, tool_result>>

\* builder_team runs final_presenter once dev_loop has returned.
Presenter ==
    /\ pc = "final_presenter"
    /\ final' = final_presenter(state)
    /\ pc' = "done"
    /\ UNCHANGED <<state, max_iterations, times_looped, sub_idx, rounds, tool_result>>

\* ------------------------------------------- the tools called directly

ToolAppend ==
    /\ pc = "tools"
    /\ \E f \in FieldNames, v \in ToolValues :
          /\ Len(Get(state, f, <<>>)) < MaxLen
          /\ LET a == append_to_state(state, f, v)
             IN /\ state' = a.state
                /\ tool_result' = [tool |-> "append_to_state", field |-> f,
                                   value |-> v, ret |-> a.ret]
    /\ UNCHANGED <<pc, max_iterations, times_looped, sub_idx, rounds, final>>

ToolGetLatest ==
    /\ pc = "tools"
    /\ LET r == get_latest_state(state)
       IN /\ state' = r.state
          /\ tool_result' = [tool |-> "get_latest_state", field |-> "",
                             value |-> "", ret |-> r.ret]
    /\ UNCHANGED <<pc, max_iterations, times_looped, sub_idx, rounds, final>>

ToolHandoff ==
    /\ pc = "tools"
    /\ \E n \in AgentNames :
          LET h == handoff_to(state, n)
          IN /\ state' = h.state
             /\ tool_result' = [tool |-> "handoff_to", field |-> "",
                                value |-> n, ret |-> h.ret]
    /\ UNCHANGED <<pc, max_iterations, times_looped, sub_idx, rounds, final>>

ToolPresent ==
    /\ pc = "tools"
    /\ final' = final_presenter(state)
    /\ tool_result' = [tool |-> "final_presenter", field |-> "",
                       value |-> "", ret |-> final_presenter(state)]
    /\ UNCHANGED <<state, pc, max_iterations, times_looped, sub_idx, rounds>>

\* code_critic given a turn on the state as it stands, whatever it holds.
CriticDirect ==
    /\ pc = "tools"
    /\ Len(Get(state, CriticField, <<>>)) < MaxLen
    /\ \E v \in {"improve", "approve"}, f \in Feedbacks :
          LET rr == CriticRound(v, f, InstructedPeer("code_critic"))
          IN /\ state' = rr.store
             /\ tool_result' = [tool |-> "code_critic", field |-> "",
                                value |-> "", ret |-> rr]
    /\ UNCHANGED <<pc, max_iterations, times_looped, sub_idx, rounds, final>>

\* -------------------------------------------------------- specifications

InitCommon ==
    /\ state = EmptyState
    /\ times_looped = 0
    /\ sub_idx = 1
    /\ rounds = <<>>
    /\ final = NoResult
    /\ tool_result = NoCall

\* A run of the agent tree, each agent calling handoff_to with the peer its
\* instruction names.
Init ==
    /\ InitCommon
    /\ pc = "greeter"
    /\ max_iterations \in 1..MaxCap

WriterTurnInstructed == WriterTurn(InstructedPeer("code_writer"))
CriticTurnInstructed == CriticTurn(InstructedPeer("code_critic"))

Next ==
    \/ Greeter
    \/ WriterTurnInstructed
    \/ CriticTurnInstructed
    \/ Presenter

Spec == Init /\ [][Next]_vars

\* The same run under the scheduling of the framework: an agent that holds
\* control takes its turn.
FairSpec == Spec /\ WF_vars(Next)

\* A run in which the name given to handoff_to is any name: the argument is
\* free text chosen by the model.
InitAnyPeer ==
    /\ InitCommon
    /\ pc = "greeter"
    /\ max_iterations \in 1..PeerCap

WriterTurnAnyPeer == \E n \in AgentNames : WriterTurn(n)
CriticTurnAnyPeer == \E n \in AgentNames : CriticTurn(n)

NextAnyPeer ==
    \/ Greeter
    \/ WriterTurnAnyPeer
    \/ CriticTurnAnyPeer
    \/ Presenter

SpecAnyPeer == InitAnyPeer /\ [][NextAnyPeer]_vars

\* The tools and the presenter applied directly to a state built by
\* arbitrary appends.
InitTools ==
    /\ InitCommon
    /\ pc = "tools"
    /\ max_iterations = DEFAULT_MAX_ITERATIONS

NextTools ==
    \/ ToolAppend
    \/ ToolGetLatest
    \/ ToolHandoff
    \/ ToolPresent
    \/ CriticDirect

SpecTools == InitTools /\ [][NextTools]_vars

\* ------------------------------------------------------------ properties

HasEntries(s, field) == Len(Get(s, field, <<>>)) > 0

IsPrefix(xs, ys) ==
    /\ Len(xs) <= Len(ys)
    /\ \A i \in 1..Len(xs) : xs[i] = ys[i]

IsStrictPrefix(xs, ys) == IsPrefix(xs, ys) /\ Len(xs) < Len(ys)

\* The list held for a field when round n had completed.
FieldAt(n, field) == Get(rounds[n].store, field, <<>>)

RoundIds == 1..Len(rounds)

\* Round i called handoff_to with a name other than the peer next in turn.
Misrouted(i) ==
    \E k \in 1..Len(rounds[i].directives) :
        /\ rounds[i].directives[k].kind = "handoff"
        /\ rounds[i].directives[k].agent_name # InstructedPeer(rounds[i].agent)

\* Every reviewer round so far handed off to the producer.
ReviewerAlwaysHandsOff ==
    \A i \in RoundIds :
        rounds[i].agent = "code_critic" =>
            rounds[i].directives = <<Handoff("code_writer")>>

\* C1 (as stated): the number of participant rounds executed so far never
\* exceeds the configured maximum, whatever handoffs the agents emit.
C1_RoundsWithinCap == Len(rounds) <= max_iterations

\* C1 (amended): the number of completed passes of the loop never exceeds
\* the configured maximum, and the number of participant rounds never
\* exceeds the maximum times the number of sub-agents (two per pass).
C1_PassesWithinCap ==
    /\ times_looped <= max_iterations
    /\ Len(rounds) <= Len(sub_agents) * max_iterations
    /\ Len(rounds) = Len(sub_agents) * times_looped + (sub_idx - 1)

C1_Witness ==
    /\ LoopState = "TERMINATED"
    /\ Len(rounds) = 2 * max_iterations
    /\ \E i \in RoundIds : Misrouted(i)

\* C2 (as stated): when the Reviewer hands off on every one of its rounds,
\* the loop is TERMINATED exactly when the round counter equals the
\* configured maximum K.
C2_TerminatedAtRoundK ==
    ReviewerAlwaysHandsOff =>
        ((LoopState = "TERMINATED") <=> (Len(rounds) = max_iterations))

\* C2 (amended): the loop eventually reaches TERMINATED, and when the
\* Reviewer handed off on every one of its rounds it is TERMINATED exactly
\* when K passes, that is 2K participant rounds, have run.
C2_TerminatesAfterKPasses ==
    /\ <>(LoopState = "TERMINATED")
    /\ [](ReviewerAlwaysHandsOff =>
            ((LoopState = "TERMINATED") <=>
                (times_looped = max_iterations /\ Len(rounds) = 2 * max_iterations)))

C2_Witness ==
    /\ LoopState = "TERMINATED"
    /\ ReviewerAlwaysHandsOff
    /\ max_iterations = DEFAULT_MAX_ITERATIONS
    /\ Len(rounds) = 2 * DEFAULT_MAX_ITERATIONS

\* C3: with a maximum above 2, a Reviewer that decides in round 2 to end
\* the loop makes the loop TERMINATED at round 2, and no round 3 runs.
C3_ApprovalAtRound2Terminates ==
    (max_iterations > 2 /\ Len(rounds) >= 2 /\ rounds[2].verdict = "approve") =>
        (LoopState = "TERMINATED" /\ Len(rounds) = 2)

\* C4: the writer acts in every odd round and the critic in every even
\* round, each round has a single acting agent, and the agent the loop
\* waits for is the one whose turn it is.
C4_Alternation ==
    /\ \A i \in RoundIds :
          rounds[i].agent = (IF i % 2 = 1 THEN "code_writer" ELSE "code_critic")
    /\ \A i \in 1..(Len(rounds) - 1) : rounds[i].agent # rounds[i + 1].agent
    /\ pc = "dev_loop" =>
          LoopState = (IF Len(rounds) % 2 = 0 THEN "AWAITING_PRODUCER"
                       ELSE "AWAITING_REVIEWER")

C4_Witness ==
    /\ Len(rounds) = 4
    /\ Misrouted(1)
    /\ Misrouted(2)

\* C5: a round whose handoff names an agent other than the peer next in
\* turn is the last thing the run does: no further round runs, the state
\* store stays as that round left it, and no result is emitted.
C5_MisroutedHandoffRejected ==
    \A i \in RoundIds :
        Misrouted(i) =>
            /\ Len(rounds) = i
            /\ state = rounds[i].store
            /\ final = NoResult

\* C6: every writer round ends with one handoff to the critic and never
\* with a terminate; after a writer round the loop awaits the critic, and
\* the loop is TERMINATED only after a critic round.
C6_ProducerNeverTerminates ==
    /\ \A i \in RoundIds :
          rounds[i].agent = "code_writer" =>
              /\ rounds[i].directives = <<Handoff("code_critic")>>
              /\ ~rounds[i].escalate
    /\ (Len(rounds) > 0 /\ rounds[Len(rounds)].agent = "code_writer") =>
          LoopState = "AWAITING_REVIEWER"
    /\ LoopState = "TERMINATED" =>
          (Len(rounds) > 0 /\ rounds[Len(rounds)].agent = "code_critic")

C6_Witness ==
    /\ Len(rounds) = 3
    /\ rounds[3].agent = "code_writer"
    /\ LoopState = "AWAITING_REVIEWER"

\* C7 (as stated): for every field and rounds N < M, the list held at
\* round N is a strict prefix of the list held at round M.
C7_StrictPrefix ==
    \A f \in FieldNames : \A n \in RoundIds, m \in RoundIds :
        n < m => IsStrictPrefix(FieldAt(n, f), FieldAt(m, f))

\* C7 (amended): for every field and rounds N < M, the list held at round N
\* is a prefix of the list held at round M (equal to it when no round in
\* between appended to the field), and of the list held now.
C7_Prefix ==
    \A f \in FieldNames : \A n \in RoundIds :
        /\ IsPrefix(FieldAt(n, f), Get(state, f, <<>>))
        /\ \A m \in RoundIds : n < m => IsPrefix(FieldAt(n, f), FieldAt(m, f))

C7_Witness ==
    /\ Len(rounds) >= 3
    /\ FieldAt(1, "CODE_DRAFT") = <<"d1">>
    /\ FieldAt(3, "CODE_DRAFT") = <<"d1", "d2">>
    /\ FieldAt(1, "CODE_DRAFT") = FieldAt(2, "CODE_DRAFT")

\* C8: a get_latest_state call never raises and leaves the state as it
\* was; it returns "" for the draft when CODE_DRAFT is absent or empty and
\* "" for the feedback when CRITICAL_FEEDBACK is absent or empty; and a
\* call that directly follows another call returns the same result.
C8_LatestOfUnwrittenField ==
    [][tool_result'.tool = "get_latest_state" =>
          /\ state' = state
          /\ tool_result'.ret.latest_code_draft # Raised
          /\ tool_result'.ret.latest_feedback # Raised
          /\ ~HasEntries(state, "CODE_DRAFT") =>
                 tool_result'.ret.latest_code_draft = ""
          /\ ~HasEntries(state, "CRITICAL_FEEDBACK") =>
                 tool_result'.ret.latest_feedback = ""
          /\ tool_result.tool = "get_latest_state" =>
                 tool_result'.ret = tool_result.ret]_vars

C8_Witness ==
    /\ tool_result.tool = "get_latest_state"
    /\ "CODE_DRAFT" \notin DOMAIN state
    /\ HasEntries(state, "CRITICAL_FEEDBACK")
    /\ tool_result.ret.latest_code_draft = ""
    /\ tool_result.ret.latest_feedback = "f1"

\* C9: the result final_presenter emits is the last entry of CODE_DRAFT at
\* the time the loop ended, in the output format of the instruction.
C9_FinalIsLatestDraft ==
    final.kind = "text" =>
        final.text = Fence(LastOrEmpty(Get(state, "CODE_DRAFT", <<>>)))

C11_TerminatedAbsorbing ==
    /\ [][/\ LoopState = "TERMINATED" =>
                /\ LoopState' = "TERMINATED"
                /\ rounds' = rounds
                /\ times_looped' = times_looped
                /\ sub_idx' = sub_idx
                /\ state' = state
          /\ final' # final =>
                /\ LoopState = "TERMINATED"
                /\ pc = "final_presenter"
                /\ final = NoResult
                /\ pc' = "done"
          /\ pc = "done" => (pc' = "done" /\ final' = final)]_vars
    /\ <>(pc = "done" /\ final # NoResult)

C11_Witness ==
    /\ pc = "done"
    /\ final # NoResult
    /\ Len(rounds) = 2 * max_iterations
    /\ max_iterations > 1

\* The round a step has just added, when it added one.
NewRound == rounds'[Len(rounds')]

\* C12: a step that runs a writer round makes CODE_DRAFT one entry longer,
\* the entry being the round's one append; a step that runs a critic round
\* makes CRITICAL_FEEDBACK at most one entry longer, and longer only when
\* the round's directive is a handoff to the writer; a critic round that
\* hands off to nobody appends nothing.
C12_AppendDiscipline ==
    [][rounds' # rounds =>
          /\ NewRound.agent = "code_writer" =>
                /\ Len(NewRound.appends) = 1
                /\ Get(state', "CODE_DRAFT", <<>>) =
                       Get(state, "CODE_DRAFT", <<>>) \o <<NewRound.appends[1].value>>
          /\ NewRound.agent = "code_critic" =>
                /\ Len(NewRound.appends) <= 1
                /\ Len(Get(state', "CRITICAL_FEEDBACK", <<>>)) =
                       Len(Get(state, "CRITICAL_FEEDBACK", <<>>)) + Len(NewRound.appends)
                /\ Len(NewRound.appends) = 1 =>
                       NewRound.directives = <<Handoff("code_writer")>>
                /\ NewRound.directives # <<Handoff("code_writer")>> =>
                       Get(state', "CRITICAL_FEEDBACK", <<>>) =
                           Get(state, "CRITICAL_FEEDBACK", <<>>)]_vars

C12_Witness ==
    /\ Len(rounds) = 4
    /\ rounds[2].appends = <<[field |-> "CRITICAL_FEEDBACK", value |-> "f1"]>>
    /\ rounds[4].appends = <<>>
    /\ Len(Get(state, "CODE_DRAFT", <<>>)) = 2
    /\ Len(Get(state, "CRITICAL_FEEDBACK", <<>>)) = 1

\* The critic was given a turn directly and found no draft.
CriticCalledFirst ==
    /\ tool_result.tool = "code_critic"
    /\ ~HasEntries(state, "CODE_DRAFT")

C14_OneDirectivePerRound ==
    \A i \in RoundIds : Len(rounds[i].directives) = 1

\* The rounds before round i that appended to the field.
AppendersBefore(i, field) ==
    {j \in 1..(i - 1) :
        \E k \in 1..Len(rounds[j].appends) : rounds[j].appends[k].field = field}

\* The value of the most recent append to the field by a round before
\* round i, "" when there was none.
LatestAppendBefore(i, field) ==
    IF AppendersBefore(i, field) = {} THEN ""
    ELSE LET j == CHOOSE x \in AppendersBefore(i, field) :
                      \A y \in AppendersBefore(i, field) : y <= x
             ks == {k \in 1..Len(rounds[j].appends) : rounds[j].appends[k].field = field}
             k == CHOOSE x \in ks : \A y \in ks : y <= x
         IN rounds[j].appends[k].value

\* C15: what a round read with get_latest_state is, for the draft and for
\* the feedback alike, the value of the most recent append to that field by
\* an earlier round.
C15_ReadsMostRecentAppends ==
    \A i \in RoundIds :
        /\ rounds[i].read.latest_code_draft = LatestAppendBefore(i, "CODE_DRAFT")
        /\ rounds[i].read.latest_feedback = LatestAppendBefore(i, "CRITICAL_FEEDBACK")

C15_Witness ==
    /\ Len(rounds) >= 7
    /\ rounds[1].appends[1].value = "d1"
    /\ rounds[3].appends[1].value = "d2"
    /\ rounds[5].appends[1].value = "d1"
    /\ rounds[2].appends = <<[field |-> "CRITICAL_FEEDBACK", value |-> "f1"]>>
    /\ rounds[4].appends = <<[field |-> "CRITICAL_FEEDBACK", value |-> "f2"]>>
    /\ rounds[6].appends = <<>>
    /\ rounds[7].read = [latest_code_draft |-> "d1", latest_feedback |-> "f2"]

\* C16: with a maximum of at least 1, CODE_DRAFT holds at least one entry
\* in every state where the loop is TERMINATED.
C16_DraftAtTermination ==
    (max_iterations >= 1 /\ LoopState = "TERMINATED") =>
        HasEntries(state, "CODE_DRAFT")

C16_Witness ==
    /\ LoopState = "TERMINATED"
    /\ max_iterations = 1
    /\ Len(Get(state, "CODE_DRAFT", <<>>)) = 1

\* C17: a direct append_to_state(field, value) call returns the success
\* acknowledgement, leaves the field holding its previous list (empty when
\* the field was absent) followed by value, one entry longer, and leaves
\* every other field as it was.
C17_AppendFootprint ==
    [][tool_result'.tool = "append_to_state" =>
          LET f == tool_result'.field
              v == tool_result'.value
              old == IF f \in DOMAIN state THEN state[f] ELSE <<>>
          IN /\ tool_result'.ret = [status |-> "success"]
             /\ f \in DOMAIN state'
             /\ state'[f] = Append(old, v)
             /\ Len(state'[f]) = Len(old) + 1
             /\ DOMAIN state' = DOMAIN state \cup {f}
             /\ \A g \in DOMAIN state : g # f => state'[g] = state[g]]_vars

C17_Witness ==
    /\ tool_result.tool = "append_to_state"
    /\ tool_result.field = "CRITICAL_FEEDBACK"
    /\ state["CRITICAL_FEEDBACK"] = <<"f1">>
    /\ HasEntries(state, "CODE_DRAFT")
    /\ HasEntries(state, "PROMPT")

\* C18: a step that runs a critic round leaves CODE_DRAFT as it was, a
\* step that runs a writer round leaves CRITICAL_FEEDBACK as it was, no
\* round changes a field other than the one its role owns, and the step of
\* the presenter changes no field.
C18_FieldOwnership ==
    [][/\ rounds' # rounds =>
             LET own == IF NewRound.agent = "code_writer"
                        THEN "CODE_DRAFT" ELSE "CRITICAL_FEEDBACK"
             IN /\ \A g \in FieldNames \ {own} :
                      Get(state', g, <<>>) = Get(state, g, <<>>)
                /\ \A k \in 1..Len(NewRound.appends) :
                      NewRound.appends[k].field = own
                /\ DOMAIN state' \subseteq DOMAIN state \cup {own}
       /\ (rounds' = rounds /\ pc # "greeter") => state' = state]_vars

C18_Witness ==
    /\ Len(rounds) = 3
    /\ Len(Get(state, "CODE_DRAFT", <<>>)) = 2
    /\ Len(Get(state, "CRITICAL_FEEDBACK", <<>>)) = 1
    /\ Get(rounds[2].store, "CODE_DRAFT", <<>>) = Get(rounds[1].store, "CODE_DRAFT", <<>>)
    /\ Get(rounds[3].store, "CRITICAL_FEEDBACK", <<>>) =
           Get(rounds[2].store, "CRITICAL_FEEDBACK", <<>>)

====
